---- MODULE Spec2Model ----
(***************************************************************************)
(* HealSeek-server: the appointment service                                *)
(* (app/controllers/appointments_controllers.py), its routes               *)
(* (app/routes/appointments_routes.py) and the query builder it uses       *)
(* (app/database/database.py, BaseModel).                                  *)
(*                                                                         *)
(* A table is the set of its rows; a row is the tuple the driver hands to  *)
(* the controller, which reads it by position.  Python's None is the empty *)
(* tuple for a missing row and 0 for a NULL cell (ids start at 1).         *)
(*                                                                         *)
(* Spec and FailureSpec serve requests one at a time; DbSpec and           *)
(* DbFairSpec run Database.execute_query step by step against a server     *)
(* that comes and goes; ConcurrentSpec runs two handlers and the health    *)
(* probe against the one shared cursor.                                    *)
(***************************************************************************)
EXTENDS Integers, Sequences, FiniteSets, TLC

\* ---- bounds of the model ------------------------------------------------
MaxAppointments == 2     \* appointments created in one behaviour
MaxTime == 2             \* largest clock value
MaxFields == 2           \* keys in the body of an update

\* ---- the users the appointments refer to (read-only for this service) ---
DoctorIds == {1, 2}
PatientIds == {3}
AdminIds == {4}
UserIds == DoctorIds \cup PatientIds \cup AdminIds
NoSuchUser == Cardinality(UserIds) + 1
\* ids a request may name: every doctor or patient, and one that has no row
RequestDoctorIds == DoctorIds \cup {NoSuchUser}
RequestPatientIds == PatientIds \cup {NoSuchUser}

\* times a request asks for, and the values datetime.now() returns: before
\* each requested time, equal to it and after it
Times == 1..(MaxTime - 1)
ClockTimes == 0..MaxTime
Statuses == {"pending", "completed", ""}
None == <<>>
NULL == 0

\* users rows as the controllers index them: [1] name, [3] email, [4] phone,
\* [5] date_of_birth, [7] gender
UserRow(u) ==
    <<u, <<"name", u>>, "password", <<"email", u>>, <<"phone", u>>, <<"dob", u>>, "picture", <<"gender", u>>>>
users == {UserRow(u) : u \in UserIds}
doctors == {<<u, "speciality">> : u \in DoctorIds}
patients == {<<u>> : u \in PatientIds}

VARIABLES
    appointments,   \* the appointments table
    next_id,        \* the next server-generated appointment_id
    ncols,          \* number of columns of the appointments table
    request,        \* the request being served (op "none": the server is idle)
    response,       \* what the handler returned or raised
    before,         \* the appointments table when the request arrived
    sent,           \* the mails the handler sent, in order
    conn,           \* db.conn: "none", or the state of the connection it holds
    reachable,      \* whether the database server accepts connections
    elapsed,        \* time.time() - db.last_connection_attempt
    call,           \* the running (or last) call of db.execute_query
    cursor,         \* the query whose result set db.cursor holds
    threads         \* the handlers running against the shared db

appvars == <<appointments, next_id, ncols, request, response, before, sent>>
dbvars == <<conn, reachable, elapsed, call>>
sharedvars == <<cursor, threads>>
vars == <<appvars, dbvars, sharedvars>>

\* ---- the appointments table ---------------------------------------------
\* Column positions.  database.py declares appointment_id, appointment_time,
\* status, doctor_id, patient_id; the listings and update read a sixth
\* column, with `type` at [3], doctor_id at [4] and patient_id at [5].
ColumnIndex(n, column) ==
    CASE column = "appointment_id" -> 1
      [] column = "appointment_time" -> 2
      [] column = "status" -> 3
      [] column = "type" -> IF n = 6 THEN 4 ELSE 0
      [] column = "doctor_id" -> IF n = 6 THEN 5 ELSE 4
      [] column = "patient_id" -> IF n = 6 THEN 6 ELSE 5

Columns(n) ==
    IF n = 6
    THEN {"appointment_id", "appointment_time", "status", "type", "doctor_id", "patient_id"}
    ELSE {"appointment_id", "appointment_time", "status", "doctor_id", "patient_id"}

Cell(n, row, column) == row[ColumnIndex(n, column)]

\* Python's row[i] (0-based); IndexError when the tuple is shorter.
HasIndex(row, i) == i + 1 <= Len(row)
At(row, i) == row[i + 1]

\* ---- wire format of appointment_time ------------------------------------
\* "%Y-%m-%dT%H:%M:%S.%fZ" is fmt "ms_Z"; "plain" is an ISO time without
\* fractional seconds, which strptime rejects and the database accepts.
WireTimes == {[fmt |-> "ms_Z", t |-> t] : t \in Times} \cup {[fmt |-> "plain", t |-> MaxTime - 1]}
StrptimeOk(s) == s.fmt = "ms_Z"
Strptime(s) == s.t
PgTimestamp(s) == s.t
IsoFormat(t) == [fmt |-> "iso", t |-> t]

\* ---- responses and exceptions -------------------------------------------
JSONResponse(content, status_code) ==
    [kind |-> "JSONResponse", status |-> status_code, content |-> content]
HTTPException(status_code, detail) ==
    [kind |-> "HTTPException", status |-> status_code, content |-> detail]
\* an exception no handler catches: the framework answers 500
Uncaught(exc) ==
    [kind |-> "Uncaught", status |-> 500, content |-> exc]
DatabaseError == "DatabaseError"

\* ---- query builder + connection: SELECT * FROM t WHERE column = %s ------
SelectBy(table, i, value) == {row \in table : row[i] = value}
select(n, table, column, value) == SelectBy(table, ColumnIndex(n, column), value)
fetch_one(rows) == IF rows = {} THEN None ELSE CHOOSE row \in rows : TRUE
fetch_all(rows) == rows

Outcome(resp, table, mails) == [response |-> resp, table |-> table, sent |-> mails]
Mail(to, subject) == [to |-> to, subject |-> subject]

\* insert with the two references written to each other's column
insert_swapped(n, id, appointment) ==
    IF n = 6
    THEN <<id, PgTimestamp(appointment.appointment_time), appointment.status, NULL,
           appointment.patient_id, appointment.doctor_id>>
    ELSE <<id, PgTimestamp(appointment.appointment_time), appointment.status,
           appointment.patient_id, appointment.doctor_id>>

\* INSERT INTO appointments (fields of the request) VALUES (...): the id is
\* generated, a column the request does not name is NULL.
insert(n, id, appointment) ==
    IF n = 6
    THEN <<id, PgTimestamp(appointment.appointment_time), appointment.status, NULL,
           appointment.doctor_id, appointment.patient_id>>
    ELSE <<id, PgTimestamp(appointment.appointment_time), appointment.status,
           appointment.doctor_id, appointment.patient_id>>

\* ---- add_appointment ----------------------------------------------------
\* f numbers the repository or mail call that fails (0: none).
add_appointment(n, table, id, appointment, current_time, f) ==
    LET existing_doctor == fetch_one(SelectBy(doctors, 1, appointment.doctor_id))
        existing_patient == fetch_one(SelectBy(patients, 1, appointment.patient_id))
        checking == "Error while checking doctor or patient ID : "
        inserted == table \cup {insert(n, id, appointment)}
        doctor_user == fetch_one(SelectBy(users, 1, appointment.doctor_id))
    IN  IF f = 1
        THEN Outcome(HTTPException(500, <<checking, DatabaseError>>), table, <<>>)
        ELSE IF existing_doctor = None
        THEN Outcome(HTTPException(500, <<checking, <<404, "Doctor ID is wrong">>>>), table, <<>>)
        ELSE IF f = 2
        THEN Outcome(HTTPException(500, <<checking, DatabaseError>>), table, <<>>)
        ELSE IF existing_patient = None
        THEN Outcome(HTTPException(500, <<checking, <<404, "Patient ID is wrong">>>>), table, <<>>)
        ELSE IF ~StrptimeOk(appointment.appointment_time)
        THEN Outcome(HTTPException(500, <<"error : ", "ValueError">>), table, <<>>)
        ELSE IF Strptime(appointment.appointment_time) < current_time
        THEN Outcome(HTTPException(500, <<"error : ", <<400, "Appointment time should be in future">>>>),
                     table, <<>>)
        ELSE IF f = 3
        THEN Outcome(HTTPException(500, <<"error : ", DatabaseError>>), table, <<>>)
        ELSE IF f = 4
        THEN Outcome(HTTPException(500, <<"error : ", DatabaseError>>), inserted, <<>>)
        ELSE IF doctor_user = None
        THEN Outcome(HTTPException(500, <<"error : ", "TypeError">>), inserted, <<>>)
        ELSE IF f = 5
        THEN Outcome(HTTPException(500, <<"error : ", "MailError">>), inserted, <<>>)
        ELSE Outcome(JSONResponse(appointment, 200), inserted,
                     <<Mail(At(doctor_user, 3), "Appointment Request")>>)

\* the request body of POST /appointments (app.models.appointment)
AppointmentBodies ==
    [appointment_time : WireTimes, status : Statuses,
     doctor_id : RequestDoctorIds, patient_id : RequestPatientIds]

\* ---- the listings and get-by-id ------------------------------------------
fetching == "Error while fetching appointments : "
fetching_one == "Error while fetching appointment : "

\* the dict built from a row by get_all_appointments and get_apointment_by_id
AppointmentDict(appointment) ==
    [appointment_id |-> At(appointment, 0), appointment_time |-> IsoFormat(At(appointment, 1)),
     status |-> At(appointment, 2), doctor_id |-> At(appointment, 3),
     patient_id |-> At(appointment, 4)]

\* the dict built from a row by get_patient_appointments and get_doctor_appointments
TypedAppointmentDict(appointment) ==
    [appointment_id |-> At(appointment, 0), appointment_time |-> IsoFormat(At(appointment, 1)),
     status |-> At(appointment, 2), type |-> At(appointment, 3),
     doctor_id |-> At(appointment, 4), patient_id |-> At(appointment, 5)]

\* get_all_appointments with the empty check inside the try block
get_all_appointments_in_try(n, table, f) ==
    LET result == fetch_all(table)
        appointments_data == {AppointmentDict(appointment) : appointment \in result}
    IN  IF f = 1
        THEN Outcome(HTTPException(500, <<fetching, DatabaseError>>), table, <<>>)
        ELSE IF appointments_data = {}
        THEN Outcome(HTTPException(500, <<fetching, <<404, "No appointments found">>>>), table, <<>>)
        ELSE Outcome(JSONResponse(appointments_data, 200), table, <<>>)

get_all_appointments(n, table, f) ==
    LET result == fetch_all(table)
        appointments_data == {AppointmentDict(appointment) : appointment \in result}
    IN  IF f = 1
        THEN Outcome(HTTPException(500, <<fetching, DatabaseError>>), table, <<>>)
        ELSE IF appointments_data = {}
        THEN Outcome(HTTPException(404, "No appointments found"), table, <<>>)
        ELSE Outcome(JSONResponse(appointments_data, 200), table, <<>>)

get_apointment_by_id(n, table, user, appointment_id, f) ==
    LET appointment == fetch_one(select(n, table, "appointment_id", appointment_id))
    IN  IF f = 1
        THEN Outcome(HTTPException(500, <<fetching_one, DatabaseError>>), table, <<>>)
        ELSE IF appointment = None
        THEN Outcome(HTTPException(404, "No appointment found"), table, <<>>)
        ELSE IF user # At(appointment, 3) \/ user # At(appointment, 4)
        THEN Outcome(HTTPException(403, "You are not allowed to see this appointment"), table, <<>>)
        ELSE Outcome(JSONResponse(AppointmentDict(appointment), 200), table, <<>>)

get_patient_appointments(n, table, patient_id, f) ==
    LET appointments_data == fetch_all(select(n, table, "patient_id", patient_id))
    IN  IF f = 1
        THEN Outcome(HTTPException(500, <<fetching, DatabaseError>>), table, <<>>)
        ELSE IF appointments_data = {}
        THEN Outcome(HTTPException(404, "No appointments found"), table, <<>>)
        ELSE IF \E appointment \in appointments_data : ~HasIndex(appointment, 5)
        THEN Outcome(Uncaught("IndexError"), table, <<>>)
        ELSE Outcome(JSONResponse({TypedAppointmentDict(appointment) : appointment \in appointments_data},
                                  200), table, <<>>)

\* the nested patient object of the doctor listing
PatientProfile(patient_data) ==
    [name |-> At(patient_data, 1), email |-> At(patient_data, 3), phone |-> At(patient_data, 4),
     date_of_birth |-> At(patient_data, 5), gender |-> At(patient_data, 7)]

get_doctor_appointments(n, table, doctor_id, f) ==
    LET appointments_data == fetch_all(select(n, table, "doctor_id", doctor_id))
        patient_data(appointment) == fetch_one(SelectBy(users, 1, At(appointment, 5)))
    IN  IF f = 1
        THEN Outcome(HTTPException(500, <<fetching, DatabaseError>>), table, <<>>)
        ELSE IF appointments_data = {}
        THEN Outcome(HTTPException(404, "No appointments found"), table, <<>>)
        ELSE IF \E appointment \in appointments_data : ~HasIndex(appointment, 5)
        THEN Outcome(Uncaught("IndexError"), table, <<>>)
        ELSE IF f = 2
        THEN Outcome(Uncaught(DatabaseError), table, <<>>)
        ELSE IF \E appointment \in appointments_data : patient_data(appointment) = None
        THEN Outcome(Uncaught("TypeError"), table, <<>>)
        ELSE Outcome(JSONResponse({[appointment |-> TypedAppointmentDict(appointment),
                                    patient |-> PatientProfile(patient_data(appointment))] :
                                        appointment \in appointments_data}, 200), table, <<>>)

\* ---- update_appointment -------------------------------------------------
\* The body of PUT is a dict: a sequence of <<key, value>> pairs with
\* distinct keys, in mapping order.
Keys(appointment_data) == {appointment_data[i][1] : i \in DOMAIN appointment_data}
Get(appointment_data, key) ==
    LET i == CHOOSE j \in DOMAIN appointment_data : appointment_data[j][1] = key
    IN  appointment_data[i][2]

\* the value the database stores for a bound parameter
Stored(key, value) == IF key = "appointment_time" THEN PgTimestamp(value) ELSE value

\* BaseModel.update: SET every key but the last, WHERE the last key
update(kwargs) ==
    [set |-> [i \in 1..(Len(kwargs) - 1) |-> kwargs[i][1]], where |-> kwargs[Len(kwargs)][1]]

\* the UPDATE executed without its WHERE clause
execute_update_everywhere(n, table, query, params) ==
    LET assigned(row, c) == \E i \in DOMAIN query.set : ColumnIndex(n, query.set[i]) = c
        value(c) == LET i == CHOOSE j \in DOMAIN query.set : ColumnIndex(n, query.set[j]) = c
                    IN  Stored(query.set[i], params[i])
        updated(row) == [c \in 1..Len(row) |-> IF assigned(row, c) THEN value(c) ELSE row[c]]
    IN  {updated(row) : row \in table}

\* executing that UPDATE with params bound in order: the rows whose `where`
\* column equals the last parameter get set[i] := params[i]
execute_update(n, table, query, params) ==
    LET hit(row) == Cell(n, row, query.where) = params[Len(params)]
        assigned(row, c) == \E i \in DOMAIN query.set : ColumnIndex(n, query.set[i]) = c
        value(c) == LET i == CHOOSE j \in DOMAIN query.set : ColumnIndex(n, query.set[j]) = c
                    IN  Stored(query.set[i], params[i])
        updated(row) == [c \in 1..Len(row) |-> IF assigned(row, c) THEN value(c) ELSE row[c]]
    IN  {IF hit(row) THEN updated(row) ELSE row : row \in table}

\* ap.update(**appointment_data, appointment_id=appointment_id): the keyword
\* arguments in call order
update_kwargs(appointment_data, appointment_id) ==
    Append(appointment_data, <<"appointment_id", appointment_id>>)
\* params=(*[value for _, value in appointment_data.items()], appointment_id,)
update_params(appointment_data, appointment_id) ==
    [i \in 1..(Len(appointment_data) + 1) |->
        IF i <= Len(appointment_data) THEN appointment_data[i][2] ELSE appointment_id]

update_appointment(n, table, user, appointment_id, appointment_data, f) ==
    LET appointment == fetch_one(select(n, table, "appointment_id", appointment_id))
        updating == "Error while updating appointment : "
        kwargs == update_kwargs(appointment_data, appointment_id)
        params == update_params(appointment_data, appointment_id)
        updated == execute_update(n, table, update(kwargs), params)
        status == Get(appointment_data, "status")
        subject == IF status = "completed" THEN "Appointment Accepted" ELSE "Appointment Rejected"
        patient == fetch_one(SelectBy(users, 1, At(appointment, 5)))
    IN  IF f = 1
        THEN Outcome(HTTPException(500, <<fetching_one, DatabaseError>>), table, <<>>)
        ELSE IF appointment = None
        THEN Outcome(HTTPException(500, <<fetching_one, <<404, "No appointment found">>>>), table, <<>>)
        ELSE IF "appointment_id" \in Keys(appointment_data)
        THEN Outcome(HTTPException(500, <<updating, "TypeError">>), table, <<>>)
        ELSE IF f = 2 \/ appointment_data = <<>> \/ ~(Keys(appointment_data) \subseteq Columns(n))
        THEN Outcome(HTTPException(500, <<updating, DatabaseError>>), table, <<>>)
        ELSE IF "status" \notin Keys(appointment_data)
        THEN Outcome(HTTPException(500, <<updating, "KeyError">>), updated, <<>>)
        ELSE IF status = ""
        THEN Outcome(JSONResponse(appointment_data, 200), updated, <<>>)
        ELSE IF ~HasIndex(appointment, 5)
        THEN Outcome(HTTPException(500, <<updating, "IndexError">>), updated, <<>>)
        ELSE IF f = 3
        THEN Outcome(HTTPException(500, <<updating, DatabaseError>>), updated, <<>>)
        ELSE IF patient = None
        THEN Outcome(HTTPException(500, <<updating, "TypeError">>), updated, <<>>)
        ELSE IF f = 4
        THEN Outcome(HTTPException(500, <<updating, "MailError">>), updated, <<>>)
        ELSE Outcome(JSONResponse(appointment_data, 200), updated, <<Mail(At(patient, 3), subject)>>)

\* ---- delete_appointment -------------------------------------------------
\* DELETE FROM appointments WHERE appointment_id = %s
delete(n, table, appointment_id) ==
    table \ select(n, table, "appointment_id", appointment_id)

delete_appointment(n, table, user, appointment_id, f) ==
    LET appointment == fetch_one(select(n, table, "appointment_id", appointment_id))
    IN  IF f = 1
        THEN Outcome(HTTPException(500, <<fetching_one, DatabaseError>>), table, <<>>)
        ELSE IF appointment = None
        THEN Outcome(HTTPException(500, <<fetching_one, <<404, "No appointment found">>>>), table, <<>>)
        ELSE IF user # At(appointment, 3)
        THEN Outcome(HTTPException(500, <<fetching_one,
                                          <<403, "You are not allowed to delete this appointment">>>>),
                     table, <<>>)
        ELSE IF f = 2
        THEN Outcome(HTTPException(500, <<"Error while deleting appointment : ", DatabaseError>>),
                     table, <<>>)
        ELSE Outcome(JSONResponse("Appointment deleted", 200), delete(n, table, appointment_id), <<>>)

\* ---- Database: the connection manager (app/database/database.py) --------
reconnect_delay == 5
max_retries == 3

\* time.time() - last_connection_attempt after d more seconds; every value
\* above reconnect_delay is kept as reconnect_delay + 1
Later(since, d) ==
    IF since + d > reconnect_delay THEN reconnect_delay + 1 ELSE since + d

\* is_connected: False without a connection; else SELECT 1 on the cursor,
\* and a connection on which that raises is forgotten
is_connected(c) ==
    [result |-> c = "open", conn |-> IF c = "open" THEN c ELSE "none"]

\* connect: a new connection, or none when psycopg2.connect raises
connect(up) ==
    [result |-> up, conn |-> IF up THEN "open" ELSE "none"]

\* ensure_connection connecting whenever the connection is not live
reconnect_due_at_once(live, since) == ~live

\* the test of ensure_connection
reconnect_due(live, since) == ~live /\ since > reconnect_delay

\* the activation record of execute_query: where it is, the statement it
\* runs ("error": one the server rejects), and what it has done so far
NoCall ==
    [pc |-> "idle", statement |-> "ok", retrying |-> FALSE, attempt |-> 0,
     executions |-> 0, commits |-> 0, rollbacks |-> 0, connects |-> 0, sleeps |-> 0,
     first_error |-> "", raised |-> "", down |-> FALSE]

\* where execute_query goes on once it has a connection
Proceed(c) == IF c.retrying THEN "retry" ELSE "cursor.execute"
Return(c, how) == [c EXCEPT !.pc = "idle", !.raised = how]

execute_query ==
    /\ call.pc = "idle"
    /\ \E statement \in {"ok", "error"} :
        call' = [NoCall EXCEPT !.pc = "ensure_connection", !.statement = statement,
                               !.down = ~reachable]
    /\ UNCHANGED <<conn, reachable, elapsed, appvars, sharedvars>>

\* ensure_connection up to its test
ensure_connection ==
    /\ call.pc = "ensure_connection"
    /\ LET probe == is_connected(conn)
       IN  /\ conn' = probe.conn
           /\ call' = [call EXCEPT !.pc = IF reconnect_due(probe.result, elapsed)
                                          THEN "ensure_connection: connect"
                                          ELSE "ensure_connection: return"]
    /\ UNCHANGED <<reachable, elapsed, appvars, sharedvars>>

\* return self.connect()
ensure_connection_connect ==
    /\ call.pc = "ensure_connection: connect"
    /\ LET attempt == connect(reachable)
       IN  /\ conn' = attempt.conn
           /\ elapsed' = 0
           /\ call' = [call EXCEPT !.connects = @ + 1,
                                   !.pc = IF attempt.result THEN "cursor.execute"
                                          ELSE "reconnect_if_needed"]
    /\ UNCHANGED <<reachable, appvars, sharedvars>>

\* return self.is_connected()
ensure_connection_return ==
    /\ call.pc = "ensure_connection: return"
    /\ LET probe == is_connected(conn)
       IN  /\ conn' = probe.conn
           /\ call' = [call EXCEPT !.pc = IF probe.result THEN "cursor.execute"
                                          ELSE "reconnect_if_needed"]
    /\ UNCHANGED <<reachable, elapsed, appvars, sharedvars>>

\* reconnect_if_needed up to its loop
reconnect_if_needed ==
    /\ call.pc = "reconnect_if_needed"
    /\ LET probe == is_connected(conn)
       IN  /\ conn' = probe.conn
           /\ call' = [call EXCEPT !.attempt = 0,
                                   !.pc = IF probe.result THEN Proceed(call)
                                          ELSE "for attempt"]
    /\ UNCHANGED <<reachable, elapsed, appvars, sharedvars>>

\* the loop whose exhaustion counts as a connection
reconnect_attempt_unchecked ==
    /\ call.pc = "for attempt"
    /\ IF call.attempt < max_retries
       THEN LET attempt == connect(reachable)
            IN  /\ conn' = attempt.conn
                /\ elapsed' = 0
                /\ call' = [call EXCEPT !.connects = @ + 1,
                                        !.pc = IF attempt.result THEN Proceed(call)
                                               ELSE "time.sleep"]
       ELSE /\ call' = [call EXCEPT !.pc = Proceed(call)]
            /\ UNCHANGED <<conn, elapsed>>
    /\ UNCHANGED <<reachable, appvars, sharedvars>>

\* one turn of `for attempt in range(max_retries)`: connect, or leave the
\* loop and return False, on which execute_query raises DatabaseError
reconnect_attempt ==
    /\ call.pc = "for attempt"
    /\ IF call.attempt < max_retries
       THEN LET attempt == connect(reachable)
            IN  /\ conn' = attempt.conn
                /\ elapsed' = 0
                /\ call' = [call EXCEPT !.connects = @ + 1,
                                        !.pc = IF attempt.result THEN Proceed(call)
                                               ELSE "time.sleep"]
       ELSE /\ call' = Return(call, DatabaseError)
            /\ UNCHANGED <<conn, elapsed>>
    /\ UNCHANGED <<reachable, appvars, sharedvars>>

\* time.sleep(self.reconnect_delay)
sleep ==
    /\ call.pc = "time.sleep"
    /\ elapsed' = Later(elapsed, reconnect_delay)
    /\ call' = [call EXCEPT !.attempt = @ + 1, !.sleeps = @ + 1, !.pc = "for attempt"]
    /\ UNCHANGED <<conn, reachable, appvars, sharedvars>>

\* the first cursor.execute and commit, and the two except clauses up to
\* the call of reconnect_if_needed.  On a lost connection execute raises
\* OperationalError; a statement the server rejects raises another
\* psycopg2.Error; without a cursor the call is an AttributeError.
cursor_execute ==
    /\ call.pc = "cursor.execute"
    /\ call' =
        IF conn = "none" THEN Return(call, "AttributeError")
        ELSE IF conn = "lost"
        THEN [call EXCEPT !.executions = @ + 1, !.first_error = "OperationalError",
                          !.retrying = TRUE, !.pc = "reconnect_if_needed"]
        ELSE IF call.statement = "error"
        THEN Return([call EXCEPT !.executions = @ + 1, !.first_error = "Error",
                                 !.rollbacks = @ + 1], DatabaseError)
        ELSE Return([call EXCEPT !.executions = @ + 1, !.commits = @ + 1], "returned")
    /\ UNCHANGED <<conn, reachable, elapsed, appvars, sharedvars>>

\* the retry after reconnect_if_needed returned True.  except psycopg2.Error
\* calls self.conn.rollback() before it raises DatabaseError; on a lost
\* connection rollback raises itself.
retry ==
    /\ call.pc = "retry"
    /\ call' =
        IF conn = "none" THEN Return(call, "AttributeError")
        ELSE IF conn = "lost"
        THEN Return([call EXCEPT !.executions = @ + 1], "psycopg2.Error")
        ELSE IF call.statement = "error"
        THEN Return([call EXCEPT !.executions = @ + 1, !.rollbacks = @ + 1], DatabaseError)
        ELSE Return([call EXCEPT !.executions = @ + 1, !.commits = @ + 1], "returned")
    /\ UNCHANGED <<conn, reachable, elapsed, appvars, sharedvars>>

\* the environment: the server goes away (an open connection is lost with
\* it), comes back, and time passes
ServerDown ==
    /\ reachable
    /\ reachable' = FALSE
    /\ conn' = IF conn = "open" THEN "lost" ELSE conn
    /\ UNCHANGED <<elapsed, call, appvars, sharedvars>>

ServerUp ==
    /\ ~reachable
    /\ reachable' = TRUE
    /\ call' = [call EXCEPT !.down = FALSE]
    /\ UNCHANGED <<conn, elapsed, appvars, sharedvars>>

Tick ==
    /\ elapsed <= reconnect_delay
    /\ elapsed' = Later(elapsed, 1)
    /\ UNCHANGED <<conn, reachable, call, appvars, sharedvars>>

\* ---- the shared cursor ---------------------------------------------------
\* Route handlers are plain functions, which the framework runs in worker
\* threads; /health runs on the event loop.  All use the one db object.
Threads == {1, 2}
NoResult == <<>>
Probe == <<"SELECT 1">>
\* the SELECTs of the listings, by WHERE column and parameter
Queries == ({"doctor_id"} \X DoctorIds) \cup ({"patient_id"} \X PatientIds)
Waiting == [pc |-> "idle", query |-> NoResult, rows |-> NoResult]

\* db.execute_query(query, params) in a handler
handler_execute_query(t) ==
    /\ threads[t].pc = "idle"
    /\ conn = "open"
    /\ \E query \in Queries :
        /\ threads' = [threads EXCEPT ![t] = [pc |-> "executed", query |-> query,
                                              rows |-> NoResult]]
        /\ cursor' = query
    /\ UNCHANGED <<appvars, dbvars>>

\* db.fetch_one() / db.fetch_all(): the rows of whatever the cursor holds
handler_fetch(t) ==
    /\ threads[t].pc = "executed"
    /\ threads' = [threads EXCEPT ![t].pc = "fetched", ![t].rows = cursor]
    /\ UNCHANGED <<cursor, appvars, dbvars>>

handler_return(t) ==
    /\ threads[t].pc = "fetched"
    /\ threads' = [threads EXCEPT ![t] = Waiting]
    /\ UNCHANGED <<cursor, appvars, dbvars>>

\* GET /health: db.is_connected(), SELECT 1 on the same cursor
health_check ==
    /\ conn # "none"
    /\ cursor' = Probe
    /\ UNCHANGED <<threads, appvars, dbvars>>

\* ---- the routes ---------------------------------------------------------
\* ids a request path may name; generated ids start at 1, so 0 names no row
RequestAppointmentIds == 0..MaxAppointments

\* bodies of PUT /appointments/{id}: at most MaxFields pairs, keys distinct
FieldPairs ==
    ({"status"} \X Statuses) \cup ({"doctor_id"} \X DoctorIds)
RECURSIVE FieldSeqs(_)
FieldSeqs(k) ==
    IF k = 0 THEN {<<>>}
    ELSE LET shorter == FieldSeqs(k - 1)
         IN  shorter \cup {Append(d, p) : d \in {s \in shorter : Len(s) = k - 1},
                                           p \in FieldPairs}
AppointmentData ==
    {d \in FieldSeqs(MaxFields) : \A i, j \in DOMAIN d : i # j => d[i][1] # d[j][1]}

Request(op, user, appointment_id, data, current_time, f) ==
    [op |-> op, user |-> user, appointment_id |-> appointment_id, data |-> data,
     current_time |-> current_time, f |-> f]

Idle == Request("none", 0, 0, <<>>, 0, 0)
NoResponse == JSONResponse(<<>>, 0)

\* the handler runs from the arrival of the request to its return or raise;
\* requests are served one at a time (each route starts from Idle)
Serve(req, out) ==
    \E o \in {out} :
        /\ request' = req
        /\ response' = o.response
        /\ before' = appointments
        /\ appointments' = o.table
        /\ sent' = o.sent
        /\ next_id' = IF req.op = "add_appointment" /\ o.table # appointments
                      THEN next_id + 1 ELSE next_id
        /\ ncols' = ncols
        /\ UNCHANGED <<dbvars, sharedvars>>

\* Each route takes F, the repository and mail calls that may fail while it
\* is served (0: none does).
get_all_appointments_route(F) ==
    /\ request = Idle
    /\ \E user \in AdminIds, f \in F :
        Serve(Request("get_all_appointments", user, 0, <<>>, 0, f),
              get_all_appointments(ncols, appointments, f))

get_patient_appointments_route(F) ==
    /\ request = Idle
    /\ \E user \in PatientIds, f \in F :
        Serve(Request("get_patient_appointments", user, 0, <<>>, 0, f),
              get_patient_appointments(ncols, appointments, user, f))

get_doctor_appointments_route(F) ==
    /\ request = Idle
    /\ \E user \in DoctorIds, f \in F :
        Serve(Request("get_doctor_appointments", user, 0, <<>>, 0, f),
              get_doctor_appointments(ncols, appointments, user, f))

get_apointment_by_id_route(F) ==
    /\ request = Idle
    /\ \E user \in UserIds, appointment_id \in RequestAppointmentIds, f \in F :
        Serve(Request("get_apointment_by_id", user, appointment_id, <<>>, 0, f),
              get_apointment_by_id(ncols, appointments, user, appointment_id, f))

\* allowed_roles doctor and patient; the caller is not passed on
add_appointment_route(F) ==
    /\ request = Idle
    /\ next_id <= MaxAppointments
    /\ \E appointment \in AppointmentBodies, current_time \in ClockTimes, f \in F :
        Serve(Request("add_appointment", 0, 0, appointment, current_time, f),
              add_appointment(ncols, appointments, next_id, appointment, current_time, f))

delete_appointment_route(F) ==
    /\ request = Idle
    /\ \E user \in DoctorIds, appointment_id \in RequestAppointmentIds, f \in F :
        Serve(Request("delete_appointment", user, appointment_id, <<>>, 0, f),
              delete_appointment(ncols, appointments, user, appointment_id, f))

update_appointment_route(F) ==
    /\ request = Idle
    /\ \E user \in DoctorIds, appointment_id \in RequestAppointmentIds,
          appointment \in AppointmentData, f \in F :
        Serve(Request("update_appointment", user, appointment_id, appointment, 0, f),
              update_appointment(ncols, appointments, user, appointment_id, appointment, f))

\* the route function returns: the response goes to the client and the
\* server waits for the next request
Respond ==
    /\ request # Idle
    /\ request' = Idle
    /\ response' = NoResponse
    /\ before' = {}
    /\ sent' = <<>>
    /\ UNCHANGED <<appointments, next_id, ncols, dbvars, sharedvars>>

Init ==
    /\ appointments = {}
    /\ next_id = 1
    /\ ncols \in {5, 6}
    /\ request = Idle
    /\ response = NoResponse
    /\ before = {}
    /\ sent = <<>>
    /\ conn = "none"
    /\ reachable = TRUE
    /\ elapsed = reconnect_delay + 1
    /\ call = NoCall
    /\ cursor = NoResult
    /\ threads = [t \in Threads |-> Waiting]

\* requests served while the database and the mail server answer
NoFailure == {0}
Next ==
    \/ get_all_appointments_route(NoFailure)
    \/ get_patient_appointments_route(NoFailure)
    \/ get_doctor_appointments_route(NoFailure)
    \/ get_apointment_by_id_route(NoFailure)
    \/ add_appointment_route(NoFailure)
    \/ delete_appointment_route(NoFailure)
    \/ update_appointment_route(NoFailure)
    \/ Respond

Spec == Init /\ [][Next]_vars

\* requests served while any one repository or mail call of the handler may
\* fail: add_appointment makes the most calls, two lookups, the insert, the
\* doctor's user lookup and send_mail
Failures == 0..5
FailureNext ==
    \/ get_all_appointments_route(Failures)
    \/ get_patient_appointments_route(Failures)
    \/ get_doctor_appointments_route(Failures)
    \/ get_apointment_by_id_route(Failures)
    \/ add_appointment_route(Failures)
    \/ delete_appointment_route(Failures)
    \/ update_appointment_route(Failures)
    \/ Respond

FailureSpec == Init /\ [][FailureNext]_vars

\* ---- specifications of the connection manager ---------------------------
\* calls of execute_query, one at a time, against a server that comes and
\* goes
Running ==
    \/ ensure_connection
    \/ ensure_connection_connect
    \/ ensure_connection_return
    \/ reconnect_if_needed
    \/ reconnect_attempt
    \/ sleep
    \/ cursor_execute
    \/ retry

DbNext ==
    \/ execute_query
    \/ ensure_connection
    \/ ensure_connection_connect
    \/ ensure_connection_return
    \/ reconnect_if_needed
    \/ reconnect_attempt
    \/ sleep
    \/ cursor_execute
    \/ retry
    \/ ServerDown
    \/ ServerUp
    \/ Tick

DbSpec == Init /\ [][DbNext]_vars

\* the thread that runs execute_query keeps running: connect, sleep and
\* the driver calls return
DbFairSpec == DbSpec /\ WF_vars(Running)

\* two handlers and the health probe after startup has connected
ConcurrentInit ==
    /\ appointments = {}
    /\ next_id = 1
    /\ ncols = 5
    /\ request = Idle
    /\ response = NoResponse
    /\ before = {}
    /\ sent = <<>>
    /\ conn = "open"
    /\ reachable = TRUE
    /\ elapsed = 0
    /\ call = NoCall
    /\ cursor = Probe
    /\ threads = [t \in Threads |-> Waiting]

ConcurrentNext ==
    \/ \E t \in Threads : handler_execute_query(t)
    \/ \E t \in Threads : handler_fetch(t)
    \/ \E t \in Threads : handler_return(t)
    \/ health_check

ConcurrentSpec == ConcurrentInit /\ [][ConcurrentNext]_vars

\* ---- properties ---------------------------------------------------------
Serving(op) == request.op = op
\* the row the request path names, as it was when the request arrived
Target == {row \in before : Cell(ncols, row, "appointment_id") = request.appointment_id}
DoctorOf(row) == Cell(ncols, row, "doctor_id")
PatientOf(row) == Cell(ncols, row, "patient_id")
EmailOf(u) == <<"email", u>>
WellFormed(appointment) == appointment.appointment_time.fmt = "ms_Z"
RefersToExisting(appointment) ==
    appointment.doctor_id \in DoctorIds /\ appointment.patient_id \in PatientIds
InFuture == request.data.appointment_time.t > request.current_time
Echoes(row, appointment) ==
    /\ Cell(ncols, row, "appointment_time") = appointment.appointment_time.t
    /\ Cell(ncols, row, "status") = appointment.status
    /\ DoctorOf(row) = appointment.doctor_id
    /\ PatientOf(row) = appointment.patient_id

C2_PastCreateIs400 ==
    (Serving("add_appointment") /\ WellFormed(request.data) /\ RefersToExisting(request.data)
        /\ ~InFuture)
    => /\ response.status = 400
       /\ appointments = before

\* C3: a create request whose doctor_id has no row in doctors or whose
\* patient_id has no row in patients fails with 404 and inserts no row.
C3_UnknownRefIs404 ==
    (Serving("add_appointment") /\ ~RefersToExisting(request.data))
    => /\ response.status = 404
       /\ appointments = before

\* C4: get-by-id of an existing appointment answers 200 with the appointment
\* when the caller is its doctor or its patient, and 403 exactly when the
\* caller is neither.
C4_OwnerMayRead ==
    Serving("get_apointment_by_id") =>
        \A row \in Target :
            /\ request.user \in {DoctorOf(row), PatientOf(row)}
                => (response.status = 200 /\ response.content.appointment_id = request.appointment_id)
            /\ request.user \notin {DoctorOf(row), PatientOf(row)} => response.status = 403

\* C5: delete of an existing appointment by a caller who is not its doctor
\* fails with 403 and the row remains unchanged.
C5_ForeignDeleteIs403 ==
    Serving("delete_appointment") =>
        \A row \in Target :
            request.user # DoctorOf(row) => (response.status = 403 /\ appointments = before)

\* C6: delete of an existing appointment by the caller whose id is the
\* appointment's doctor_id removes exactly that row and answers 200; the id
\* is no longer found afterwards.
C6_DoctorDeletes ==
    Serving("delete_appointment") =>
        \A row \in Target :
            request.user = DoctorOf(row)
            => /\ response.status = 200
               /\ appointments = before \ {row}
               /\ select(ncols, appointments, "appointment_id", request.appointment_id) = {}

\* C7: an update of an existing appointment whose field set contains a
\* status sends exactly one mail to the appointment's patient, accepted
\* wording for `completed` and rejected wording for every other value (an
\* empty one included), and answers 200.
C7_StatusUpdateNotifies ==
    (Serving("update_appointment") /\ "status" \in Keys(request.data)) =>
        \A row \in Target :
            /\ response.status = 200
            /\ sent = <<Mail(EmailOf(PatientOf(row)),
                             IF Get(request.data, "status") = "completed"
                             THEN "Appointment Accepted" ELSE "Appointment Rejected")>>

\* the row with the fields of the request's body applied
Applied(row, appointment_data) ==
    [c \in 1..Len(row) |->
        IF \E key \in Keys(appointment_data) : ColumnIndex(ncols, key) = c
        THEN LET key == CHOOSE k \in Keys(appointment_data) : ColumnIndex(ncols, k) = c
             IN  Get(appointment_data, key)
        ELSE row[c]]

\* C8: an update of an existing appointment with a non-empty field set that
\* has no status applies the fields to the row, answers 200 and sends no
\* mail.
C8_PlainUpdateSucceeds ==
    (Serving("update_appointment") /\ request.data # <<>> /\ "status" \notin Keys(request.data)) =>
        \A row \in Target :
            /\ appointments = (before \ {row}) \cup {Applied(row, request.data)}
            /\ response.status = 200
            /\ sent = <<>>

\* C9: update and delete of an appointment id that does not exist fail with
\* 404, write nothing and send no mail.
C9_MissingTargetIs404 ==
    ((Serving("update_appointment") \/ Serving("delete_appointment")) /\ Target = {})
    => /\ response.status = 404
       /\ appointments = before
       /\ sent = <<>>

\* C10: a read whose lookup yields no row fails with 404 and is no empty
\* success: get-by-id of a missing id, for every caller, and list-all,
\* list-by-patient and list-by-doctor on an empty result set.
NotFound == response.kind = "HTTPException" /\ response.status = 404
C10_EmptyReadIs404 ==
    /\ (Serving("get_apointment_by_id") /\ Target = {}) => NotFound
    /\ (Serving("get_all_appointments") /\ before = {}) => NotFound
    /\ (Serving("get_patient_appointments")
            /\ ~\E row \in before : PatientOf(row) = request.user) => NotFound
    /\ (Serving("get_doctor_appointments")
            /\ ~\E row \in before : DoctorOf(row) = request.user) => NotFound

C10_Witness ==
    /\ Serving("get_doctor_appointments")
    /\ before # {}
    /\ ~\E row \in before : DoctorOf(row) = request.user
    /\ NotFound

\* C11: an update issued by a caller whose id differs from the appointment's
\* doctor_id (another doctor included) leaves the stored appointments
\* unchanged.
C11_ForeignUpdateChangesNothing ==
    Serving("update_appointment") =>
        \A row \in Target : request.user # DoctorOf(row) => appointments = before

\* C12: no request changes the doctor_id, the patient_id or the
\* appointment_time of a stored appointment: a row that keeps its
\* appointment_id across a request keeps those three cells, so every stored
\* appointment still has the ones it was created with.
SameIdentity(old, new) ==
    /\ DoctorOf(new) = DoctorOf(old)
    /\ PatientOf(new) = PatientOf(old)
    /\ Cell(ncols, new, "appointment_time") = Cell(ncols, old, "appointment_time")
C12_IdentityKept ==
    request # Idle =>
        \A old \in before, new \in appointments :
            Cell(ncols, new, "appointment_id") = Cell(ncols, old, "appointment_id")
                => SameIdentity(old, new)

\* C13: list-by-doctor answers with exactly the stored appointments whose
\* doctor_id is the caller's id, each with a nested patient object built
\* from the users row of its patient_id (name, email, phone, date of birth,
\* gender).
ProfileOf(u) ==
    [name |-> <<"name", u>>, email |-> <<"email", u>>, phone |-> <<"phone", u>>,
     date_of_birth |-> <<"dob", u>>, gender |-> <<"gender", u>>]
Listed(item, row) ==
    /\ item.appointment.appointment_id = Cell(ncols, row, "appointment_id")
    /\ item.appointment.doctor_id = DoctorOf(row)
    /\ item.appointment.patient_id = PatientOf(row)
    /\ item.appointment.status = Cell(ncols, row, "status")
    /\ item.patient = ProfileOf(PatientOf(row))
C13_DoctorListingJoinsPatients ==
    Serving("get_doctor_appointments") =>
        LET mine == {row \in before : DoctorOf(row) = request.user}
        IN  mine # {} =>
                /\ response.kind = "JSONResponse"
                /\ response.status = 200
                /\ \A row \in mine : \E item \in response.content : Listed(item, row)
                /\ \A item \in response.content : \E row \in mine : Listed(item, row)

\* C18: for every field set passed to update_appointment the UPDATE has the
\* given columns in its SET clause in mapping order and appointment_id as
\* its WHERE key, each placeholder is bound to the value of its own column
\* and the last one to the target id; the rows whose appointment_id is not
\* the target id are left as they were and no other row appears.
C18_UpdateHitsOnlyTarget ==
    Serving("update_appointment") =>
        LET query == update(update_kwargs(request.data, request.appointment_id))
            params == update_params(request.data, request.appointment_id)
        IN  /\ query.set = [i \in DOMAIN request.data |-> request.data[i][1]]
            /\ query.where = "appointment_id"
            /\ Len(params) = Len(query.set) + 1
            /\ \A i \in DOMAIN query.set : params[i] = Get(request.data, query.set[i])
            /\ params[Len(params)] = request.appointment_id
            /\ \A row \in before \ Target : row \in appointments
            /\ Cardinality(appointments \ before) <= Cardinality(Target)
            /\ \A row \in appointments \ before :
                    Cell(ncols, row, "appointment_id") = request.appointment_id

\* an update that rewrote its target while another appointment is stored
C18_Witness ==
    /\ Serving("update_appointment")
    /\ Len(request.data) = 2
    /\ Target # {}
    /\ before \ Target # {}
    /\ appointments # before
    /\ before \ Target \subseteq appointments

\* C14: in every operation a DatabaseError raised by a repository call is
\* caught and answered as HTTPException 500 whose detail carries the
\* message; it never leaves the handler as a raw exception.
C14_DriverFailureIs500 ==
    request # Idle =>
        /\ response.kind = "Uncaught" => response.content # DatabaseError
        /\ (request.f = 1 /\ response.kind = "HTTPException")
            => (response.status = 500 /\ response.content[2] = DatabaseError)

\* C20: a create that ends with an error response has inserted no row; a
\* row is added only by a create that answered 200.
C20_FailedCreateInsertsNothing ==
    Serving("add_appointment") =>
        /\ response.status # 200 => appointments = before
        /\ appointments # before => (response.kind = "JSONResponse" /\ response.status = 200)

\* ---- properties of the connection manager --------------------------------
Finished == call.pc = "idle" /\ call.raised # ""

\* C15: execute_query commits once when the statement succeeds; the
\* statement is executed at most twice, the second time only after the
\* first execution raised an operational error, and such a call ends by
\* returning or by raising DatabaseError; after any other driver error it
\* rolls back, does not execute again and raises DatabaseError.
C15_ExecuteQueryRetriesOnce ==
    /\ call.executions <= 2
    /\ call.executions = 2 => call.first_error = "OperationalError"
    /\ Finished =>
        /\ call.raised = "returned" => (call.commits = 1 /\ call.rollbacks = 0)
        /\ call.first_error = "OperationalError" => call.raised \in {"returned", DatabaseError}
        /\ call.first_error = "Error"
            => (call.executions = 1 /\ call.rollbacks = 1 /\ call.raised = DatabaseError)

\* C16: ensure_connection goes on to connect() exactly when the connection
\* is not live and more than reconnect_delay has passed since the last
\* attempt; otherwise it makes no attempt and returns whether the
\* connection is live.
C16_ConnectOnlyAfterCooldown ==
    [][/\ (call.pc = "ensure_connection" /\ call'.pc # call.pc)
            => (call'.pc = "ensure_connection: connect"
                    <=> (conn # "open" /\ elapsed > reconnect_delay))
       /\ (call.pc = "ensure_connection: connect" /\ call'.pc # call.pc)
            => call'.connects = call.connects + 1
       /\ (call.pc = "ensure_connection: return" /\ call'.pc # call.pc)
            => /\ call'.connects = call.connects
               /\ elapsed' = elapsed
               /\ call'.pc = "cursor.execute" <=> conn = "open"]_vars

\* ensure_connection found no connection within the cooldown and returned
\* False without an attempt
C16_Witness ==
    /\ call.pc = "reconnect_if_needed"
    /\ ~call.retrying
    /\ call.connects = 0
    /\ reachable
    /\ elapsed <= reconnect_delay

\* C17: a call of execute_query during which the database is unreachable
\* never executes the statement, makes at most max_retries connection
\* attempts in reconnect_if_needed (one more in ensure_connection), sleeps
\* reconnect_delay after each of them, ends only by raising DatabaseError,
\* and does end.
C17_UnreachableCallFails ==
    /\ [](call.down =>
            /\ call.executions = 0
            /\ call.connects <= max_retries + 1
            /\ call.sleeps <= max_retries
            /\ call.sleeps <= call.connects
            /\ call.raised \in {"", DatabaseError}
            /\ call.raised = DatabaseError => call.sleeps = max_retries)
    /\ ((call.pc # "idle" /\ call.down) ~> (call.pc = "idle" \/ ~call.down))

C17_Witness ==
    /\ Finished
    /\ call.down
    /\ call.raised = DatabaseError
    /\ call.connects = max_retries + 1
    /\ call.sleeps = max_retries

\* C19: the rows a handler fetches are the result of the query that handler
\* last passed to execute_query, not of another request's query or of the
\* liveness probe.
C19_FetchReturnsOwnResult ==
    \A t \in Threads : threads[t].pc = "fetched" => threads[t].rows = threads[t].query
====
